---- MODULE Spec2Model ----
(***************************************************************************)
(* ValidationBuilder (data_validation/validation_builder.py): the builder  *)
(* of a matched pair of query specifications, one for the source and one   *)
(* for the target, from a single validation config.                        *)
(*                                                                         *)
(* Python dicts are functions whose DOMAIN is the set of keys present.     *)
(* Values that share a slot with None are tagged records: None, PyInt(n),  *)
(* PyStr(s), PyList(seq).  An object's attributes are a dict too: `self`   *)
(* gains a key at each first assignment of an attribute.                   *)
(***************************************************************************)
EXTENDS Integers, Sequences, FiniteSets, TLC

VARIABLES
    config,        \* the caller's config dict; self.config refers to this same object
    verbose,       \* the constructor's verbose argument
    self,          \* the attributes of the ValidationBuilder object
    pc,            \* position of the constructor, "ready" once it has returned
    i,             \* index of the next element in the constructor's current for loop
    raised,        \* exception raised by the last operation, NoError when it returned
    result,        \* value returned by the last operation
    printed,       \* lines the last operation wrote to standard output
    compile_log,   \* per side, the arguments the compiler got since builder and config last changed
    mutations      \* how many times the caller has changed the config after construction

vars == <<config, verbose, self, pc, i, raised, result, printed, compile_log, mutations>>

----------------------------------------------------------------------------
(* Bounds of the model *)

\* the most aggregate specs in a config, and aggregate descriptors in a builder
MaxAggs == 2
\* the most grouped-column specs in a config, and grouped descriptors in a builder
MaxGroups == 2
\* the most changes the caller makes to the config after construction
MaxMutations == 1

----------------------------------------------------------------------------
(* Python values *)

None == [none |-> TRUE]
PyInt(n) == [int |-> n]
PyStr(s) == [str |-> s]
PyList(s) == [list |-> s]
EmptyDict == [dict |-> <<>>]

Has(d, k) == k \in DOMAIN d
\* dict.get(k): the value, or None when the key is absent
Get(d, k) == IF Has(d, k) THEN d[k] ELSE None
\* dict.get(k, default)
GetDefault(d, k, default) == IF Has(d, k) THEN d[k] ELSE default
Restrict(d, keys) == [k \in keys |-> d[k]]
\* d[k] = v on a dict, adding the key when it is absent
SetItem(d, k, v) == [x \in DOMAIN d \cup {k} |-> IF x = k THEN v ELSE d[x]]
DelItem(d, k) == [x \in DOMAIN d \ {k} |-> d[x]]
\* `value or []` for a value that is None or a list
OrEmptyList(v) == IF v = None THEN <<>> ELSE v.list

NoError == "none"
ValueError == "ValueError: Validation Builder supplied unknown type"
UnknownAggregation == "Exception: Unknown Aggregation Type"
KeyError == "KeyError"
TypeError == "TypeError"
CompileError == "error raised by the compiler"

SourceClient == "source_client"
TargetClient == "target_client"

----------------------------------------------------------------------------
(* The query_builder classes the builder drives *)

\* the aggregations AggregateField offers as static methods
AggregationKinds == {"count", "sum", "avg", "min", "max"}

\* attributes every Python class has whatever its body declares
InheritedAttributes == {"__doc__", "__init__", "__prepare__"}

\* hasattr(AggregateField, name), for a name that is a string
HasAttr(name) == name \in AggregationKinds \cup InheritedAttributes

\* AggregateField.<kind>(field_name=..., alias=...)
AggregateField(kind, field_name, alias) ==
    [kind |-> kind, field_name |-> field_name, alias |-> alias]

\* getattr(AggregateField, name)(field_name=..., alias=...), for a name hasattr accepts:
\* a static method builds a descriptor; type.__prepare__ takes any arguments and
\* returns an empty dict; the other attributes cannot be called with these keywords
GetAttrCall(name, field_name, alias) ==
    IF name \in AggregationKinds
    THEN [raised |-> NoError, value |-> AggregateField(name, field_name, alias)]
    ELSE IF name = "__prepare__"
    THEN [raised |-> NoError, value |-> EmptyDict]
    ELSE [raised |-> TypeError, value |-> None]

\* GroupedField(field_name=..., alias=..., cast=...)
GroupedField(field_name, alias, cast) ==
    [field_name |-> field_name, alias |-> alias, cast |-> cast]

\* QueryBuilder.build_count_validator(): a fresh specification with no fields and no limit
BuildCountValidator ==
    [aggregate_fields |-> <<>>, grouped_fields |-> <<>>, limit |-> None]

\* QueryBuilder.add_aggregate_field(field)
AddAggregateField(builder, field) ==
    [builder EXCEPT !.aggregate_fields = Append(@, field)]

\* QueryBuilder.add_grouped_field(field)
AddGroupedField(builder, field) ==
    [builder EXCEPT !.grouped_fields = Append(@, field)]

\* QueryBuilder.compile(data_client, schema_name, table_name) when it returns:
\* the query is determined by the three arguments and the specification
Compile(builder, args) ==
    [query |-> [data_client |-> args.data_client,
                schema_name |-> args.schema_name,
                table_name |-> args.table_name,
                specification |-> builder]]

----------------------------------------------------------------------------
(* ValidationBuilder's methods, as functions of the object and the config *)

\* get_query_builder without its type check
get_query_builder_any(validation_type) ==
    [raised |-> NoError, value |-> BuildCountValidator]

\* get_query_builder(validation_type)
get_query_builder(validation_type) ==
    IF validation_type \in {"Column", "GroupedColumn"}
    THEN [raised |-> NoError, value |-> BuildCountValidator]
    ELSE [raised |-> ValueError, value |-> None]

get_config_aggregates(cfg) == OrEmptyList(Get(cfg, "aggregates"))

get_config_query_groups(cfg) == OrEmptyList(Get(cfg, "grouped_columns"))

get_aggregate_aliases(s) == s.aggregate_aliases

get_group_aliases(s) == s.group_aliases

\* the descriptor add_aggregate builds for the source side
SourceAggregate(aggregate_field) ==
    GetAttrCall(aggregate_field.type, aggregate_field.source_column,
                aggregate_field.field_alias)

\* the descriptor add_aggregate builds for the target side
TargetAggregate(aggregate_field) ==
    GetAttrCall(aggregate_field.type, aggregate_field.target_column,
                aggregate_field.field_alias)

\* the appends of add_aggregate with the alias put at the head of the registry
AppendAggregateAtHead(s, source_agg, target_agg, alias) ==
    [s EXCEPT !.source_builder = AddAggregateField(@, source_agg),
              !.target_builder = AddAggregateField(@, target_agg),
              !.aggregate_aliases = <<alias>> \o @]

\* the three appends that end add_aggregate
AppendAggregate(s, source_agg, target_agg, alias) ==
    [s EXCEPT !.source_builder = AddAggregateField(@, source_agg),
              !.target_builder = AddAggregateField(@, target_agg),
              !.aggregate_aliases = Append(@, alias)]

\* add_aggregate that registers the alias before it looks the type up
add_aggregate_alias_first(s, aggregate_field) ==
    IF \E k \in {"field_alias", "source_column", "target_column"} :
           ~Has(aggregate_field, k)
    THEN [raised |-> KeyError, self |-> s]
    ELSE LET s1 == [s EXCEPT !.aggregate_aliases = Append(@, aggregate_field.field_alias)]
         IN  IF ~Has(aggregate_field, "type")
             THEN [raised |-> TypeError, self |-> s1]
             ELSE IF ~HasAttr(aggregate_field.type)
             THEN [raised |-> UnknownAggregation, self |-> s1]
             ELSE IF SourceAggregate(aggregate_field).raised # NoError
             THEN [raised |-> SourceAggregate(aggregate_field).raised, self |-> s1]
             ELSE [raised |-> NoError,
                   self |-> [s1 EXCEPT
                       !.source_builder =
                           AddAggregateField(@, SourceAggregate(aggregate_field).value),
                       !.target_builder =
                           AddAggregateField(@, TargetAggregate(aggregate_field).value)]]

\* add_aggregate(aggregate_field): the exception it raises and the object it leaves
add_aggregate(s, aggregate_field) ==
    IF \E k \in {"field_alias", "source_column", "target_column"} :
           ~Has(aggregate_field, k)
    THEN [raised |-> KeyError, self |-> s]
    ELSE IF ~Has(aggregate_field, "type")
    THEN [raised |-> TypeError, self |-> s]           \* hasattr(cls, None)
    ELSE IF ~HasAttr(aggregate_field.type)
    THEN [raised |-> UnknownAggregation, self |-> s]
    ELSE IF SourceAggregate(aggregate_field).raised # NoError
    THEN [raised |-> SourceAggregate(aggregate_field).raised, self |-> s]
    ELSE IF TargetAggregate(aggregate_field).raised # NoError
    THEN [raised |-> TargetAggregate(aggregate_field).raised, self |-> s]
    ELSE [raised |-> NoError,
          self |-> AppendAggregate(s, SourceAggregate(aggregate_field).value,
                                   TargetAggregate(aggregate_field).value,
                                   aggregate_field.field_alias)]

\* the descriptor add_query_group builds for the source side
SourceGroup(grouped_field) ==
    GroupedField(grouped_field.source_column, grouped_field.field_alias,
                 Get(grouped_field, "cast"))

\* the descriptor add_query_group builds for the target side
TargetGroup(grouped_field) ==
    GroupedField(grouped_field.target_column, grouped_field.field_alias,
                 Get(grouped_field, "cast"))

\* the appends of add_query_group with the alias put in both registries
AppendGroupBothRegistries(s, source_field, target_field, alias) ==
    [s EXCEPT !.source_builder = AddGroupedField(@, source_field),
              !.target_builder = AddGroupedField(@, target_field),
              !.group_aliases = Append(@, alias),
              !.aggregate_aliases = Append(@, alias)]

\* the three appends that end add_query_group
AppendGroup(s, source_field, target_field, alias) ==
    [s EXCEPT !.source_builder = AddGroupedField(@, source_field),
              !.target_builder = AddGroupedField(@, target_field),
              !.group_aliases = Append(@, alias)]

\* add_query_group(grouped_field): the exception it raises and the object it leaves
add_query_group(s, grouped_field) ==
    IF \E k \in {"field_alias", "source_column", "target_column"} :
           ~Has(grouped_field, k)
    THEN [raised |-> KeyError, self |-> s]
    ELSE [raised |-> NoError,
          self |-> AppendGroup(s, SourceGroup(grouped_field),
                               TargetGroup(grouped_field),
                               grouped_field.field_alias)]

get_query_limit(cfg) == Get(cfg, "limit")

\* add_query_limit that sets the limit of the source specification only
add_query_limit_source_only(s, cfg) ==
    [s EXCEPT !.source_builder.limit = get_query_limit(cfg)]

\* add_query_limit that sets a limit only on specifications that hold a field
add_query_limit_when_fields(s, cfg) ==
    IF s.aggregate_aliases = <<>> /\ s.group_aliases = <<>>
    THEN s
    ELSE [s EXCEPT !.source_builder.limit = get_query_limit(cfg),
                   !.target_builder.limit = get_query_limit(cfg)]

\* add_query_limit(): the object it leaves
add_query_limit(s, cfg) ==
    [s EXCEPT !.source_builder.limit = get_query_limit(cfg),
              !.target_builder.limit = get_query_limit(cfg)]

\* get_source_query's arguments with the names every config holds when the object
\* is constructed
source_config_as_built(s, cfg) ==
    [data_client |-> s.source_client,
     schema_name |-> "s",
     table_name |-> "t"]

\* the keyword arguments get_source_query hands to compile
source_config(s, cfg) ==
    [data_client |-> s.source_client,
     schema_name |-> cfg.schema_name,
     table_name |-> cfg.table_name]

\* get_target_query's arguments with the table looked up under the schema's key
target_config_schema_key_twice(s, cfg) ==
    [data_client |-> s.target_client,
     schema_name |-> GetDefault(cfg, "target_schema_name", cfg.schema_name),
     table_name |-> GetDefault(cfg, "target_schema_name", cfg.table_name)]

\* the keyword arguments get_target_query hands to compile
target_config(s, cfg) ==
    [data_client |-> s.target_client,
     schema_name |-> GetDefault(cfg, "target_schema_name", cfg.schema_name),
     table_name |-> GetDefault(cfg, "target_table_name", cfg.table_name)]

----------------------------------------------------------------------------
(* The configs and the arguments the callers supply *)

Absent == [absent |-> TRUE]

AggregateSpec(alias, type) ==
    [field_alias |-> alias, source_column |-> "amount",
     target_column |-> "amt", type |-> type]

\* two resolvable specs, one of an unknown type, two naming an inherited
\* attribute, one without its target_column key
AggregateSpecs ==
    {AggregateSpec("a", "count"), AggregateSpec("b", "sum"),
     AggregateSpec("b", "bogus"), AggregateSpec("a", "__prepare__"),
     AggregateSpec("b", "__doc__"),
     DelItem(AggregateSpec("b", "sum"), "target_column")}

GroupSpec(alias) ==
    [field_alias |-> alias, source_column |-> "region",
     target_column |-> "region_cd", cast |-> PyStr("string")]

\* one spec with a cast, one without, one without its source_column key
GroupSpecs ==
    {GroupSpec("g"), DelItem(GroupSpec("h"), "cast"),
     DelItem(GroupSpec("g"), "source_column")}

SeqsUpTo(S, n) == UNION {[1..m -> S] : m \in 0..n}

\* what the "aggregates" key can hold: nothing (no key), None, or a list
AggregateValues ==
    {Absent, None} \cup {PyList(l) : l \in SeqsUpTo(AggregateSpecs, MaxAggs)}

GroupValues ==
    {Absent, None} \cup {PyList(l) : l \in SeqsUpTo(GroupSpecs, MaxGroups)}

LimitValues == {Absent, PyInt(500)}

MakeConfig(type, aggregates, grouped_columns, limit, target_schema, target_table) ==
    LET full == [type |-> type, aggregates |-> aggregates,
                 grouped_columns |-> grouped_columns, limit |-> limit,
                 schema_name |-> "s", table_name |-> "t",
                 target_schema_name |-> "ts", target_table_name |-> "tt"]
        keys == {"type", "schema_name", "table_name"}
                \cup (IF aggregates = Absent THEN {} ELSE {"aggregates"})
                \cup (IF grouped_columns = Absent THEN {} ELSE {"grouped_columns"})
                \cup (IF limit = Absent THEN {} ELSE {"limit"})
                \cup (IF target_schema THEN {"target_schema_name"} ELSE {})
                \cup (IF target_table THEN {"target_table_name"} ELSE {})
    IN  Restrict(full, keys)

BaseAggregates == PyList(<<AggregateSpec("a", "count")>>)
BaseGroups == PyList(<<GroupSpec("g")>>)

\* the configs a builder is constructed from: every combination of validation type,
\* declared fields, limit and target location
Configs ==
    {MakeConfig(t, a, g, l, ts, tt) :
        t \in {"Column", "GroupedColumn", "Bogus"},
        a \in AggregateValues, g \in GroupValues, l \in LimitValues,
        ts \in BOOLEAN, tt \in BOOLEAN}

\* the configs of the builders whose callers go on to use them: one field of each
\* kind at every target location, with and without a limit, and the field lists
\* that make add_aggregate misbehave
CallerConfigs ==
    {MakeConfig("GroupedColumn", BaseAggregates, BaseGroups, PyInt(500), ts, tt) :
        ts \in BOOLEAN, tt \in BOOLEAN}
    \cup
    {MakeConfig("Column", a, Absent, Absent, FALSE, FALSE) :
        a \in {None, BaseAggregates,
               PyList(<<AggregateSpec("a", "__prepare__")>>),
               PyList(<<AggregateSpec("a", "count"), AggregateSpec("b", "bogus")>>)}}
    \cup
    {MakeConfig("Bogus", BaseAggregates, BaseGroups, Absent, FALSE, FALSE),
     MakeConfig("GroupedColumn",
                PyList(<<AggregateSpec("a", "count"), AggregateSpec("b", "bogus")>>),
                BaseGroups, PyInt(500), FALSE, FALSE)}

\* the specs callers pass to add_aggregate: a resolvable one, one naming an
\* inherited attribute, one of an unknown type
CallerAggregateSpecs ==
    {AggregateSpec("b", "sum"), AggregateSpec("a", "__prepare__"),
     AggregateSpec("b", "bogus")}

\* the specs callers pass to add_query_group: one without a cast, one without
\* its source_column key
CallerGroupSpecs ==
    {DelItem(GroupSpec("h"), "cast"), DelItem(GroupSpec("g"), "source_column")}

\* the changes a caller makes to a config it has already built from
MutatedConfigs(cfg) ==
    {SetItem(cfg, "limit", PyInt(100)), DelItem(cfg, "limit"),
     SetItem(cfg, "aggregates", PyList(<<AggregateSpec("b", "sum")>>)),
     DelItem(cfg, "grouped_columns"),
     SetItem(cfg, "schema_name", "s2"),
     SetItem(cfg, "target_table_name", "tt2")} \ {cfg}

----------------------------------------------------------------------------
(* The state machine *)

EmptyLog == [source |-> <<>>, target |-> <<>>]

\* the state at the entry of the constructor
Start ==
    /\ self = [k \in {} |-> None]
    /\ pc = "new"
    /\ i = 1
    /\ raised = NoError
    /\ result = None
    /\ printed = <<>>
    /\ compile_log = EmptyLog
    /\ mutations = 0

Init ==
    /\ config \in CallerConfigs
    /\ verbose \in BOOLEAN
    /\ Start

InitBuild ==
    /\ config \in Configs
    /\ verbose = FALSE
    /\ Start

\* __init__ up to the alias lists (lines 28-39)
Construct ==
    /\ pc = "new"
    /\ LET attrs == [verbose |-> verbose, validation_type |-> config.type,
                     source_client |-> SourceClient, target_client |-> TargetClient]
           built == get_query_builder(config.type)
       IN  IF built.raised # NoError
           THEN /\ self' = attrs
                /\ pc' = "failed"
                /\ raised' = built.raised
           ELSE /\ self' = [k \in DOMAIN attrs \cup {"source_builder", "target_builder",
                                                     "aggregate_aliases", "group_aliases"} |->
                               IF k \in DOMAIN attrs THEN attrs[k]
                               ELSE IF k \in {"source_builder", "target_builder"}
                               THEN get_query_builder(config.type).value
                               ELSE <<>>]
                /\ pc' = "add_config_aggregates"
                /\ raised' = NoError
    /\ i' = 1
    /\ UNCHANGED <<config, verbose, result, printed, compile_log, mutations>>

\* add_config_aggregates walking the configured list from its last element
AddConfigAggregatesLastFirst ==
    /\ pc = "add_config_aggregates"
    /\ LET aggregate_fields == get_config_aggregates(config)
       IN  IF i <= Len(aggregate_fields)
           THEN LET done == add_aggregate(self, aggregate_fields[Len(aggregate_fields) + 1 - i])
                IN  /\ self' = done.self
                    /\ raised' = done.raised
                    /\ pc' = IF done.raised = NoError THEN pc ELSE "failed"
                    /\ i' = i + 1
           ELSE /\ pc' = "add_config_query_groups"
                /\ i' = 1
                /\ UNCHANGED <<self, raised>>
    /\ UNCHANGED <<config, verbose, result, printed, compile_log, mutations>>

\* add_config_aggregates: one turn of its loop, or its end
AddConfigAggregates ==
    /\ pc = "add_config_aggregates"
    /\ LET aggregate_fields == get_config_aggregates(config)
       IN  IF i <= Len(aggregate_fields)
           THEN LET done == add_aggregate(self, aggregate_fields[i])
                IN  /\ self' = done.self
                    /\ raised' = done.raised
                    /\ pc' = IF done.raised = NoError THEN pc ELSE "failed"
                    /\ i' = i + 1
           ELSE /\ pc' = "add_config_query_groups"
                /\ i' = 1
                /\ UNCHANGED <<self, raised>>
    /\ UNCHANGED <<config, verbose, result, printed, compile_log, mutations>>

\* add_config_query_groups: one turn of its loop, or its end
AddConfigQueryGroups ==
    /\ pc = "add_config_query_groups"
    /\ LET grouped_fields == get_config_query_groups(config)
       IN  IF i <= Len(grouped_fields)
           THEN LET done == add_query_group(self, grouped_fields[i])
                IN  /\ self' = done.self
                    /\ raised' = done.raised
                    /\ pc' = IF done.raised = NoError THEN pc ELSE "failed"
                    /\ i' = i + 1
           ELSE /\ pc' = "add_query_limit"
                /\ i' = 1
                /\ UNCHANGED <<self, raised>>
    /\ UNCHANGED <<config, verbose, result, printed, compile_log, mutations>>

\* the constructor's add_query_limit, after which it returns the object
AddQueryLimit ==
    /\ pc = "add_query_limit"
    /\ self' = add_query_limit(self, config)
    /\ pc' = "ready"
    /\ UNCHANGED <<config, verbose, i, raised, result, printed, compile_log, mutations>>

\* what an operation that changed neither the object nor the config leaves of the log
LogAfter(s, cfg, s2, cfg2, log) ==
    IF s2 = s /\ cfg2 = cfg THEN log ELSE EmptyLog

\* a caller's add_aggregate(aggregate_field) on the constructed object
CallAddAggregate(aggregate_field) ==
    /\ pc = "ready"
    /\ Len(self.aggregate_aliases) < MaxAggs
    /\ LET done == add_aggregate(self, aggregate_field)
       IN  /\ self' = done.self
           /\ raised' = done.raised
           /\ compile_log' = LogAfter(self, config, done.self, config, compile_log)
    /\ result' = None
    /\ printed' = <<>>
    /\ UNCHANGED <<config, verbose, pc, i, mutations>>

\* a caller's add_query_group(grouped_field) on the constructed object
CallAddQueryGroup(grouped_field) ==
    /\ pc = "ready"
    /\ Len(self.group_aliases) < MaxGroups
    /\ LET done == add_query_group(self, grouped_field)
       IN  /\ self' = done.self
           /\ raised' = done.raised
           /\ compile_log' = LogAfter(self, config, done.self, config, compile_log)
    /\ result' = None
    /\ printed' = <<>>
    /\ UNCHANGED <<config, verbose, pc, i, mutations>>

\* a caller's add_query_limit() on the constructed object
CallAddQueryLimit ==
    /\ pc = "ready"
    /\ self' = add_query_limit(self, config)
    /\ compile_log' = LogAfter(self, config, self', config, compile_log)
    /\ raised' = NoError
    /\ result' = None
    /\ printed' = <<>>
    /\ UNCHANGED <<config, verbose, pc, i, mutations>>

GetAggregateAliases ==
    /\ pc = "ready"
    /\ result' = PyList(get_aggregate_aliases(self))
    /\ raised' = NoError
    /\ printed' = <<>>
    /\ UNCHANGED <<config, verbose, self, pc, i, compile_log, mutations>>

GetGroupAliases ==
    /\ pc = "ready"
    /\ result' = PyList(get_group_aliases(self))
    /\ raised' = NoError
    /\ printed' = <<>>
    /\ UNCHANGED <<config, verbose, self, pc, i, compile_log, mutations>>

\* get_source_query that resolves the limit from the config again before it compiles
get_source_query_relimit(s, cfg, returned) ==
    LET s2 == add_query_limit(s, cfg)
        query == Compile(s2.source_builder, source_config(s2, cfg))
    IN  [call |-> [args |-> source_config(s2, cfg), specification |-> s2.source_builder],
         raised |-> IF returned THEN NoError ELSE CompileError,
         result |-> IF returned THEN query ELSE None,
         printed |-> IF returned /\ s2.verbose
                     THEN <<PyStr("-- ** Source Query ** --"), query>>
                     ELSE <<>>,
         self |-> s2]

\* get_source_query handing the target's client to the compiler
get_source_query_target_client(s, cfg, returned) ==
    LET args == [source_config(s, cfg) EXCEPT !.data_client = s.target_client]
        query == Compile(s.source_builder, args)
    IN  [call |-> [args |-> args, specification |-> s.source_builder],
         raised |-> IF returned THEN NoError ELSE CompileError,
         result |-> IF returned THEN query ELSE None,
         printed |-> IF returned /\ s.verbose
                     THEN <<PyStr("-- ** Source Query ** --"), query>>
                     ELSE <<>>,
         self |-> s]

\* get_source_query that prints the query in place of returning it when verbose
get_source_query_print_only(s, cfg, returned) ==
    LET query == Compile(s.source_builder, source_config(s, cfg))
    IN  [call |-> [args |-> source_config(s, cfg), specification |-> s.source_builder],
         raised |-> IF returned THEN NoError ELSE CompileError,
         result |-> IF returned /\ ~s.verbose THEN query ELSE None,
         printed |-> IF returned /\ s.verbose
                     THEN <<PyStr("-- ** Source Query ** --"), query>>
                     ELSE <<>>,
         self |-> s]

\* what get_source_query leaves when compile returns (returned) or raises
get_source_query(s, cfg, returned) ==
    LET query == Compile(s.source_builder, source_config(s, cfg))
    IN  [call |-> [args |-> source_config(s, cfg), specification |-> s.source_builder],
         raised |-> IF returned THEN NoError ELSE CompileError,
         result |-> IF returned THEN query ELSE None,
         printed |-> IF returned /\ s.verbose
                     THEN <<PyStr("-- ** Source Query ** --"), query>>
                     ELSE <<>>,
         self |-> s]

\* get_target_query printing its header before it calls the compiler
get_target_query_header_first(s, cfg, returned) ==
    LET query == Compile(s.target_builder, target_config(s, cfg))
        header == IF s.verbose THEN <<PyStr("-- ** Target Query ** --")>> ELSE <<>>
    IN  [call |-> [args |-> target_config(s, cfg), specification |-> s.target_builder],
         raised |-> IF returned THEN NoError ELSE CompileError,
         result |-> IF returned THEN query ELSE None,
         printed |-> IF returned /\ s.verbose THEN header \o <<query>> ELSE header,
         self |-> s]

\* what get_target_query leaves when compile returns (returned) or raises
get_target_query(s, cfg, returned) ==
    LET query == Compile(s.target_builder, target_config(s, cfg))
    IN  [call |-> [args |-> target_config(s, cfg), specification |-> s.target_builder],
         raised |-> IF returned THEN NoError ELSE CompileError,
         result |-> IF returned THEN query ELSE None,
         printed |-> IF returned /\ s.verbose
                     THEN <<PyStr("-- ** Target Query ** --"), query>>
                     ELSE <<>>,
         self |-> s]

GetSourceQuery ==
    /\ pc = "ready"
    /\ \E returned \in BOOLEAN :
        LET done == get_source_query(self, config, returned)
        IN  /\ compile_log' = [compile_log EXCEPT !.source = <<done.call>>]
            /\ self' = done.self
            /\ raised' = done.raised
            /\ result' = done.result
            /\ printed' = done.printed
    /\ UNCHANGED <<config, verbose, pc, i, mutations>>

GetTargetQuery ==
    /\ pc = "ready"
    /\ \E returned \in BOOLEAN :
        LET done == get_target_query(self, config, returned)
        IN  /\ compile_log' = [compile_log EXCEPT !.target = <<done.call>>]
            /\ self' = done.self
            /\ raised' = done.raised
            /\ result' = done.result
            /\ printed' = done.printed
    /\ UNCHANGED <<config, verbose, pc, i, mutations>>

\* the object if its specifications read their limit through the config
AfterConfigChangeLive(s, cfg) == add_query_limit(s, cfg)

\* the object once the config it refers to has become cfg: the builders hold
\* descriptors and a limit of their own, the registries hold strings, and nothing
\* but self.config refers to the config
AfterConfigChange(s, cfg) == s

\* the caller changes the config it built from; the object holds a reference to it
MutateConfig ==
    /\ pc = "ready"
    /\ mutations < MaxMutations
    /\ config' \in MutatedConfigs(config)
    /\ self' = AfterConfigChange(self, config')
    /\ mutations' = mutations + 1
    /\ compile_log' = EmptyLog
    /\ UNCHANGED <<verbose, pc, i, raised, result, printed>>

Next ==
    \/ Construct
    \/ AddConfigAggregates
    \/ AddConfigQueryGroups
    \/ AddQueryLimit
    \/ \E aggregate_field \in CallerAggregateSpecs : CallAddAggregate(aggregate_field)
    \/ \E grouped_field \in CallerGroupSpecs : CallAddQueryGroup(grouped_field)
    \/ CallAddQueryLimit
    \/ GetAggregateAliases
    \/ GetGroupAliases
    \/ GetSourceQuery
    \/ GetTargetQuery
    \/ MutateConfig

\* the life of a builder and of the config it was built from
Spec == Init /\ [][Next]_vars

NextBuild ==
    \/ Construct
    \/ AddConfigAggregates
    \/ AddConfigQueryGroups
    \/ AddQueryLimit

\* construction alone, over every config
SpecBuild == InitBuild /\ [][NextBuild]_vars

----------------------------------------------------------------------------
(* Claims *)

Built == Has(self, "source_builder") /\ Has(self, "target_builder")

SupportedType(cfg) == cfg.type \in {"Column", "GroupedColumn"}

RequiredKeys == {"field_alias", "source_column", "target_column"}

\* every aggregate spec has its keys and names one of the registry's kinds, and
\* every grouped spec has its keys
Resolvable(cfg) ==
    /\ \A k \in 1..Len(get_config_aggregates(cfg)) :
        LET f == get_config_aggregates(cfg)[k]
        IN  RequiredKeys \subseteq DOMAIN f /\ Has(f, "type") /\ f.type \in AggregationKinds
    /\ \A k \in 1..Len(get_config_query_groups(cfg)) :
        RequiredKeys \subseteq DOMAIN get_config_query_groups(cfg)[k]

\* the aliases of a list of specs that all have one, in order
Aliases(specs) == [k \in 1..Len(specs) |-> specs[k].field_alias]

\* how many elements of a sequence are descriptors under the alias
CountUnder(fields, alias) ==
    Cardinality({k \in 1..Len(fields) : Has(fields[k], "alias") /\ fields[k].alias = alias})

\* how many times a registry holds the alias
CountIn(aliases, alias) == Cardinality({k \in 1..Len(aliases) : aliases[k] = alias})

\* C1: once construction has succeeded, for every aggregate spec of the config the
\* source specification holds, at the spec's position, the descriptor its type's
\* aggregation builds from (source_column, field_alias) and the target specification
\* the one it builds from (target_column, field_alias); for every grouped spec they
\* hold the grouped descriptors of (source_column, field_alias, cast) and
\* (target_column, field_alias, cast).
C1_DescriptorsPerSpec ==
    pc = "ready" =>
        LET aggs == get_config_aggregates(config)
            groups == get_config_query_groups(config)
            sb == self.source_builder
            tb == self.target_builder
        IN  /\ Len(sb.aggregate_fields) = Len(aggs)
            /\ Len(tb.aggregate_fields) = Len(aggs)
            /\ \A k \in 1..Len(aggs) :
                /\ sb.aggregate_fields[k] =
                       AggregateField(aggs[k].type, aggs[k].source_column, aggs[k].field_alias)
                /\ tb.aggregate_fields[k] =
                       AggregateField(aggs[k].type, aggs[k].target_column, aggs[k].field_alias)
            /\ Len(sb.grouped_fields) = Len(groups)
            /\ Len(tb.grouped_fields) = Len(groups)
            /\ \A k \in 1..Len(groups) :
                /\ sb.grouped_fields[k] =
                       GroupedField(groups[k].source_column, groups[k].field_alias,
                                    Get(groups[k], "cast"))
                /\ tb.grouped_fields[k] =
                       GroupedField(groups[k].target_column, groups[k].field_alias,
                                    Get(groups[k], "cast"))

\* C2: in every state in which the specifications exist, the source aggregate
\* sequence, the target aggregate sequence and the aggregate-alias registry have the
\* same length and the same alias at every index, and so have the two grouped
\* sequences and the group-alias registry.
C2_StructuralParity ==
    Built =>
        LET sb == self.source_builder
            tb == self.target_builder
        IN  /\ Len(sb.aggregate_fields) = Len(self.aggregate_aliases)
            /\ Len(tb.aggregate_fields) = Len(self.aggregate_aliases)
            /\ \A k \in 1..Len(self.aggregate_aliases) :
                /\ Has(sb.aggregate_fields[k], "alias")
                /\ Has(tb.aggregate_fields[k], "alias")
                /\ sb.aggregate_fields[k].alias = self.aggregate_aliases[k]
                /\ tb.aggregate_fields[k].alias = self.aggregate_aliases[k]
            /\ Len(sb.grouped_fields) = Len(self.group_aliases)
            /\ Len(tb.grouped_fields) = Len(self.group_aliases)
            /\ \A k \in 1..Len(self.group_aliases) :
                /\ sb.grouped_fields[k].alias = self.group_aliases[k]
                /\ tb.grouped_fields[k].alias = self.group_aliases[k]

\* C3: a config of a supported type whose specs are all resolvable does not fail,
\* and once it is built get_aggregate_aliases() and get_group_aliases() return the
\* field_alias values of its aggregate specs and of its grouped specs in the order
\* the config declares them.
C3_AliasesInDeclarationOrder ==
    (SupportedType(config) /\ Resolvable(config)) =>
        /\ pc # "failed"
        /\ pc = "ready" =>
            /\ get_aggregate_aliases(self) = Aliases(get_config_aggregates(config))
            /\ get_group_aliases(self) = Aliases(get_config_query_groups(config))

\* C3's case: a built config with two aggregates and two groups whose aliases differ
C3_Witness ==
    /\ pc = "ready"
    /\ SupportedType(config) /\ Resolvable(config)
    /\ get_aggregate_aliases(self) = <<"b", "a">>
    /\ get_group_aliases(self) = <<"h", "g">>

\* C4: once construction has succeeded, each alias the config declares has exactly
\* one descriptor in the source specification and one in the target specification
\* within its category, and occurs once in its registry.
C4_OneDescriptorPerAlias ==
    pc = "ready" =>
        LET aggs == get_config_aggregates(config)
            groups == get_config_query_groups(config)
            sb == self.source_builder
            tb == self.target_builder
        IN  /\ \A k \in 1..Len(aggs) :
                /\ CountUnder(sb.aggregate_fields, aggs[k].field_alias) = 1
                /\ CountUnder(tb.aggregate_fields, aggs[k].field_alias) = 1
                /\ CountIn(self.aggregate_aliases, aggs[k].field_alias) = 1
            /\ \A k \in 1..Len(groups) :
                /\ CountUnder(sb.grouped_fields, groups[k].field_alias) = 1
                /\ CountUnder(tb.grouped_fields, groups[k].field_alias) = 1
                /\ CountIn(self.group_aliases, groups[k].field_alias) = 1

\* some aggregate spec of the config names a type outside the registry, and nothing
\* else is wrong with the config
NamesUnknownKind(cfg) ==
    /\ SupportedType(cfg)
    /\ \A k \in 1..Len(get_config_aggregates(cfg)) :
        RequiredKeys \cup {"type"} \subseteq DOMAIN get_config_aggregates(cfg)[k]
    /\ \E k \in 1..Len(get_config_aggregates(cfg)) :
        get_config_aggregates(cfg)[k].type \notin AggregationKinds

\* C5: a config in which some aggregate spec names a type outside the registry is
\* never built: its construction stops in the aggregate-binding step, with the
\* unknown-aggregation error.
C5_UnknownKindFailsConstruction ==
    NamesUnknownKind(config) =>
        /\ pc \in {"new", "add_config_aggregates", "failed"}
        /\ pc = "failed" => raised = UnknownAggregation

\* C5's other reading: the offending spec is let through and the builder is returned
C5_UnknownKindNeverBuilt == NamesUnknownKind(config) => pc # "ready"

\* C6: a validation type outside {"Column", "GroupedColumn"} stops construction at
\* its first step with the unsupported-type error, with no specification and no
\* alias registry created and no later step entered; a supported type passes the
\* check and leaves two specifications.
C6_UnsupportedTypeFailsFirst ==
    /\ ~SupportedType(config) =>
        /\ pc \in {"new", "failed"}
        /\ pc = "failed" =>
            /\ raised = ValueError
            /\ DOMAIN self \cap {"source_builder", "target_builder",
                                 "aggregate_aliases", "group_aliases"} = {}
    /\ (SupportedType(config) /\ pc # "new") =>
        /\ Built
        /\ raised # ValueError

\* C6's case: the constructor has raised on the type "Bogus"
C6_Witness ==
    /\ config.type = "Bogus"
    /\ pc = "failed"
    /\ raised = ValueError

\* C7: once construction has succeeded the two specifications have the same limit:
\* None when the config has no limit key, the configured value when it has one.
C7_SameLimit ==
    pc = "ready" =>
        /\ self.source_builder.limit = self.target_builder.limit
        /\ self.source_builder.limit =
               (IF Has(config, "limit") THEN config.limit ELSE None)

\* C7's case: a config with limit 500 has been built
C7_Witness ==
    /\ pc = "ready"
    /\ Has(config, "limit")
    /\ self.source_builder.limit = PyInt(500)
    /\ self.target_builder.limit = PyInt(500)

\* C8: what the compiler last got from get_source_query is the source client, the
\* config's schema_name and table_name and the source specification; what it last
\* got from get_target_query is the target client, the target specification and,
\* separately for schema and table, the target_ key's value when the config has the
\* key and the source's value when it has not.
C8_CompileLocations ==
    /\ compile_log.source # <<>> =>
        compile_log.source[1] =
            [args |-> [data_client |-> SourceClient,
                       schema_name |-> config.schema_name,
                       table_name |-> config.table_name],
             specification |-> self.source_builder]
    /\ compile_log.target # <<>> =>
        compile_log.target[1] =
            [args |-> [data_client |-> TargetClient,
                       schema_name |-> IF Has(config, "target_schema_name")
                                       THEN config.target_schema_name
                                       ELSE config.schema_name,
                       table_name |-> IF Has(config, "target_table_name")
                                      THEN config.target_table_name
                                      ELSE config.table_name],
             specification |-> self.target_builder]

\* C8's case: get_target_query has returned on a config that overrides the schema
\* and not the table, with specifications that differ
C8_Witness ==
    /\ compile_log.target # <<>>
    /\ raised = NoError
    /\ Has(result, "query")
    /\ Has(config, "target_schema_name")
    /\ ~Has(config, "target_table_name")
    /\ self.source_builder # self.target_builder

\* C9: a get_source_query or get_target_query call changes neither the object (the
\* specifications' sequences and limits, the registries) nor the config, and hands
\* the compiler what the last such call on that side handed it.
C9_CompileDoesNotMutate ==
    [][(GetSourceQuery \/ GetTargetQuery) =>
          /\ self' = self
          /\ config' = config
          /\ compile_log.source # <<>> => compile_log'.source = compile_log.source
          /\ compile_log.target # <<>> => compile_log'.target = compile_log.target]_vars

\* C9's case: both sides have been compiled, after the config has changed
C9_Witness ==
    /\ compile_log.source # <<>>
    /\ compile_log.target # <<>>
    /\ Has(result, "query")
    /\ mutations > 0

Rank(step) ==
    CASE step = "new" -> 0
      [] step = "add_config_aggregates" -> 1
      [] step = "add_config_query_groups" -> 2
      [] step = "add_query_limit" -> 3
      [] step = "ready" -> 4
      [] OTHER -> 5

\* the first n aggregate specs of the config, and no others, are in both specifications
AggregatesBound(n) ==
    /\ Len(self.source_builder.aggregate_fields) = n
    /\ Len(self.target_builder.aggregate_fields) = n
    /\ \A k \in 1..n :
        /\ self.source_builder.aggregate_fields[k] =
               SourceAggregate(get_config_aggregates(config)[k]).value
        /\ self.target_builder.aggregate_fields[k] =
               TargetAggregate(get_config_aggregates(config)[k]).value

\* the first n group specs of the config, and no others, are in both specifications
GroupsBound(n) ==
    /\ Len(self.source_builder.grouped_fields) = n
    /\ Len(self.target_builder.grouped_fields) = n
    /\ \A k \in 1..n :
        /\ self.source_builder.grouped_fields[k] =
               SourceGroup(get_config_query_groups(config)[k])
        /\ self.target_builder.grouped_fields[k] =
               TargetGroup(get_config_query_groups(config)[k])

NoLimitYet == self.source_builder.limit = None /\ self.target_builder.limit = None

\* C12: the constructor goes through its steps in one order and never back: no
\* descriptor exists before both specifications do; while the aggregates are bound
\* (in declaration order) there is no grouped descriptor; while the groups are bound
\* (in declaration order) every aggregate is in place; the limit is set only once
\* every group is in place.
C12_LinearConstruction ==
    /\ [](/\ pc = "new" => ~Built
          /\ pc = "add_config_aggregates" =>
                /\ Built
                /\ AggregatesBound(i - 1)
                /\ GroupsBound(0)
                /\ NoLimitYet
          /\ pc = "add_config_query_groups" =>
                /\ AggregatesBound(Len(get_config_aggregates(config)))
                /\ GroupsBound(i - 1)
                /\ NoLimitYet
          /\ pc = "add_query_limit" =>
                /\ AggregatesBound(Len(get_config_aggregates(config)))
                /\ GroupsBound(Len(get_config_query_groups(config)))
                /\ NoLimitYet
          /\ pc = "ready" =>
                /\ AggregatesBound(Len(get_config_aggregates(config)))
                /\ GroupsBound(Len(get_config_query_groups(config)))
                /\ self.source_builder.limit = get_query_limit(config)
                /\ self.target_builder.limit = get_query_limit(config))
    /\ [][/\ Rank(pc') >= Rank(pc)
          /\ (pc' # pc /\ pc' # "failed") => Rank(pc') = Rank(pc) + 1]_vars

\* C12's case: the second of two groups is about to be bound, after two aggregates,
\* with a limit still to come
C12_Witness ==
    /\ pc = "add_config_query_groups"
    /\ i = 2
    /\ Len(get_config_query_groups(config)) = 2
    /\ Len(self.group_aliases) = 1
    /\ Len(self.aggregate_aliases) = 2
    /\ self.aggregate_aliases[1] # self.aggregate_aliases[2]
    /\ Has(config, "limit")

\* the descriptors of a sequence that name a column
ColumnDescriptors(fields) ==
    {fields[k] : k \in {n \in 1..Len(fields) : Has(fields[n], "field_name")}}

\* the elements of a sequence
Elements(fields) == {fields[k] : k \in 1..Len(fields)}

\* no descriptor of one specification is an element of the other
NoSharedDescriptor ==
    /\ ColumnDescriptors(self.source_builder.aggregate_fields)
           \cap Elements(self.target_builder.aggregate_fields) = {}
    /\ ColumnDescriptors(self.target_builder.aggregate_fields)
           \cap Elements(self.source_builder.aggregate_fields) = {}
    /\ ColumnDescriptors(self.source_builder.grouped_fields)
           \cap Elements(self.target_builder.grouped_fields) = {}
    /\ ColumnDescriptors(self.target_builder.grouped_fields)
           \cap Elements(self.source_builder.grouped_fields) = {}

\* C13: no descriptor of one specification is in the other; a source compile passes
\* the source specification and the source client and leaves alone what a target
\* compile was and would be given and would return, and the other way round, so the
\* order of the two calls changes nothing on either side.
C13_SidesIndependent ==
    /\ [](Built => NoSharedDescriptor)
    /\ [][/\ GetSourceQuery =>
               /\ compile_log'.source[1].specification = self.source_builder
               /\ compile_log'.source[1].args.data_client = self.source_client
               /\ compile_log'.source[1].args.data_client # self.target_client
               /\ compile_log'.target = compile_log.target
               /\ get_target_query(self', config', TRUE).call =
                      get_target_query(self, config, TRUE).call
               /\ get_target_query(self', config', TRUE).result =
                      get_target_query(self, config, TRUE).result
          /\ GetTargetQuery =>
               /\ compile_log'.target[1].specification = self.target_builder
               /\ compile_log'.target[1].args.data_client = self.target_client
               /\ compile_log'.target[1].args.data_client # self.source_client
               /\ compile_log'.source = compile_log.source
               /\ get_source_query(self', config', TRUE).call =
                      get_source_query(self, config, TRUE).call
               /\ get_source_query(self', config', TRUE).result =
                      get_source_query(self, config, TRUE).result]_vars

\* C13's case: both sides have been compiled from an object that holds an aggregate
\* and a grouped descriptor on each side
C13_Witness ==
    /\ pc = "ready"
    /\ compile_log.source # <<>>
    /\ compile_log.target # <<>>
    /\ ColumnDescriptors(self.source_builder.aggregate_fields) # {}
    /\ ColumnDescriptors(self.target_builder.grouped_fields) # {}

\* one sequence is the start of another
IsPrefix(old, new) ==
    /\ Len(old) <= Len(new)
    /\ \A k \in 1..Len(old) : new[k] = old[k]

\* C14: from their creation on, every step leaves each alias registry with its
\* previous content as a prefix; the steps that run add_aggregate leave
\* group_aliases as it was and those that run add_query_group leave
\* aggregate_aliases as it was.
C14_RegistriesAppendOnly ==
    [][/\ Built =>
            /\ Built'
            /\ IsPrefix(self.aggregate_aliases, self'.aggregate_aliases)
            /\ IsPrefix(self.group_aliases, self'.group_aliases)
       /\ (AddConfigAggregates \/ \E f \in CallerAggregateSpecs : CallAddAggregate(f)) =>
            self'.group_aliases = self.group_aliases
       /\ (AddConfigQueryGroups \/ \E f \in CallerGroupSpecs : CallAddQueryGroup(f)) =>
            self'.aggregate_aliases = self.aggregate_aliases]_vars

\* C14's case: a constructed object whose registries have each grown to two aliases
C14_Witness ==
    /\ pc = "ready"
    /\ Len(self.aggregate_aliases) = 2
    /\ Len(self.group_aliases) = 2
    /\ Len(get_config_aggregates(config)) < 2
    /\ Len(get_config_query_groups(config)) < 2

\* C15: when the compiler raises, the caller gets the compiler's error and no query,
\* nothing is printed for the call, the compiler was called once, the object and
\* the config are as before, and a second call would hand the compiler the same
\* arguments.
C15_CompileErrorPropagates ==
    [][/\ (GetSourceQuery /\ raised' # NoError) =>
            /\ raised' = CompileError
            /\ result' = None
            /\ printed' = <<>>
            /\ Len(compile_log'.source) = 1
            /\ self' = self
            /\ config' = config
            /\ get_source_query(self', config', TRUE).call = compile_log'.source[1]
       /\ (GetTargetQuery /\ raised' # NoError) =>
            /\ raised' = CompileError
            /\ result' = None
            /\ printed' = <<>>
            /\ Len(compile_log'.target) = 1
            /\ self' = self
            /\ config' = config
            /\ get_target_query(self', config', TRUE).call = compile_log'.target[1]]_vars

\* C15's case: the compiler has raised under a verbose object that holds descriptors
C15_Witness ==
    /\ pc = "ready"
    /\ raised = CompileError
    /\ self.verbose
    /\ printed = <<>>
    /\ compile_log.target # <<>>
    /\ Len(self.target_builder.aggregate_fields) > 0

\* the config declares nothing under the key: the key is absent, null or an empty list
DeclaresNothing(cfg, key) ==
    \/ ~Has(cfg, key)
    \/ cfg[key] = None
    \/ cfg[key] = PyList(<<>>)

\* C16: a config of a supported type that declares no aggregate and no group never
\* fails construction, and the constructed object has empty specifications on both
\* sides, empty registries, and the configured limit in both specifications.
C16_EmptyConfigBuilds ==
    (/\ SupportedType(config)
     /\ DeclaresNothing(config, "aggregates")
     /\ DeclaresNothing(config, "grouped_columns")) =>
        /\ pc # "failed"
        /\ raised = NoError
        /\ pc = "ready" =>
            /\ self.source_builder.aggregate_fields = <<>>
            /\ self.target_builder.aggregate_fields = <<>>
            /\ self.source_builder.grouped_fields = <<>>
            /\ self.target_builder.grouped_fields = <<>>
            /\ self.aggregate_aliases = <<>>
            /\ self.group_aliases = <<>>
            /\ self.source_builder.limit = Get(config, "limit")
            /\ self.target_builder.limit = Get(config, "limit")

\* C16's case: an object built from a config without the aggregates key, with null
\* grouped columns and with a limit
C16_Witness ==
    /\ pc = "ready"
    /\ ~Has(config, "aggregates")
    /\ Has(config, "grouped_columns")
    /\ config.grouped_columns = None
    /\ self.source_builder.limit = PyInt(500)
    /\ self.target_builder.limit = PyInt(500)
    /\ self.source_builder.aggregate_fields = <<>>

\* the same from empty lists
C16_WitnessEmptyLists ==
    /\ pc = "ready"
    /\ DeclaresNothing(config, "aggregates")
    /\ Has(config, "aggregates")
    /\ config.aggregates = PyList(<<>>)
    /\ Has(config, "grouped_columns")
    /\ config.grouped_columns = PyList(<<>>)
    /\ self.target_builder.limit = PyInt(500)

\* the object with its verbose flag set to v
WithVerbose(s, v) == [s EXCEPT !.verbose = v]

\* two outcomes of a mutator agree on everything but the verbose flag of the object
SameButVerbose(loud, quiet) ==
    /\ loud.raised = quiet.raised
    /\ WithVerbose(loud.self, FALSE) = quiet.self

\* two outcomes of a compile method agree on the compiler's arguments, on the error
\* and on the query returned, and leave their objects alone
SameCompile(loud, quiet) ==
    /\ loud.call = quiet.call
    /\ loud.raised = quiet.raised
    /\ loud.result = quiet.result
    /\ SameButVerbose(loud, quiet)

\* what a compile method prints: under verbose, the header and then the query it
\* returns; nothing otherwise, and nothing when the compiler raised
Emits(done, v, header) ==
    done.printed = IF v /\ done.raised = NoError
                   THEN <<PyStr(header), done.result>>
                   ELSE <<>>

\* C17: the object's verbose flag is the one it was constructed with; on any object
\* and its twin that differs in the flag alone, every mutator and both compile
\* methods give the same error, the same object up to the flag, the same compiler
\* arguments and the same query; the verbose one prints the source header and the
\* query for get_source_query and the target header and the query for
\* get_target_query, only when the compiler has returned, and the other prints
\* nothing.
C17_VerboseIsDiagnosticOnly ==
    Built =>
        LET loud == WithVerbose(self, TRUE)
            quiet == WithVerbose(self, FALSE)
        IN  /\ self.verbose = verbose
            /\ \A f \in CallerAggregateSpecs \cup Elements(get_config_aggregates(config)) :
                   SameButVerbose(add_aggregate(loud, f), add_aggregate(quiet, f))
            /\ \A f \in CallerGroupSpecs \cup Elements(get_config_query_groups(config)) :
                   SameButVerbose(add_query_group(loud, f), add_query_group(quiet, f))
            /\ WithVerbose(add_query_limit(loud, config), FALSE) = add_query_limit(quiet, config)
            /\ get_aggregate_aliases(loud) = get_aggregate_aliases(quiet)
            /\ get_group_aliases(loud) = get_group_aliases(quiet)
            /\ \A returned \in BOOLEAN :
                /\ SameCompile(get_source_query(loud, config, returned),
                               get_source_query(quiet, config, returned))
                /\ SameCompile(get_target_query(loud, config, returned),
                               get_target_query(quiet, config, returned))
                /\ Emits(get_source_query(loud, config, returned), TRUE,
                         "-- ** Source Query ** --")
                /\ Emits(get_source_query(quiet, config, returned), FALSE,
                         "-- ** Source Query ** --")
                /\ Emits(get_target_query(loud, config, returned), TRUE,
                         "-- ** Target Query ** --")
                /\ Emits(get_target_query(quiet, config, returned), FALSE,
                         "-- ** Target Query ** --")
            /\ pc = "ready" => (printed # <<>> => (verbose /\ raised = NoError /\ printed[2] = result))

\* C17's case: a verbose object has compiled its target query and printed it
C17_Witness ==
    /\ pc = "ready"
    /\ self.verbose
    /\ raised = NoError
    /\ compile_log.target # <<>>
    /\ printed = <<PyStr("-- ** Target Query ** --"), result>>
    /\ Len(self.target_builder.aggregate_fields) > 0

\* the twin: a quiet object has compiled the same and printed nothing
C17_WitnessQuiet ==
    /\ pc = "ready"
    /\ ~self.verbose
    /\ raised = NoError
    /\ compile_log.target # <<>>
    /\ result = get_target_query(self, config, TRUE).result
    /\ printed = <<>>
    /\ Len(self.target_builder.aggregate_fields) > 0

\* the location a compile call is given
Location(args) == <<args.schema_name, args.table_name>>

\* C18: the names a compile call passes are those the caller's config holds at the
\* call; when the caller changes a name in the config of a constructed object, the
\* next compile of the side that reads it is given the new location, with the
\* specification (fields and limit) that was built.
C18_LocationReadAtCompile ==
    [][/\ GetSourceQuery =>
            Location(compile_log'.source[1].args) = <<config.schema_name, config.table_name>>
       /\ GetTargetQuery =>
            Location(compile_log'.target[1].args) =
                <<GetDefault(config, "target_schema_name", config.schema_name),
                  GetDefault(config, "target_table_name", config.table_name)>>
       /\ config' # config =>
            LET before == get_source_query(self, config, TRUE).call
                after == get_source_query(self', config', TRUE).call
                target_before == get_target_query(self, config, TRUE).call
                target_after == get_target_query(self', config', TRUE).call
            IN  /\ after.specification = before.specification
                /\ target_after.specification = target_before.specification
                /\ after.specification = self.source_builder
                /\ target_after.specification = self.target_builder
                /\ Location(after.args) = <<config'.schema_name, config'.table_name>>
                /\ (config'.schema_name # config.schema_name) =>
                       Location(after.args) # Location(before.args)
                /\ (/\ Has(config', "target_table_name")
                    /\ Has(config, "target_table_name")
                    /\ config'.target_table_name # config.target_table_name) =>
                       Location(target_after.args) # Location(target_before.args)]_vars

\* C18's case: after the caller renamed the schema and the object compiled its
\* source query, the compiler was given the new schema and the specification as
\* built, limit included
C18_Witness ==
    /\ pc = "ready"
    /\ mutations = 1
    /\ config.schema_name = "s2"
    /\ compile_log.source # <<>>
    /\ compile_log.source[1].args.schema_name = "s2"
    /\ compile_log.source[1].specification.limit = PyInt(500)
    /\ Len(compile_log.source[1].specification.aggregate_fields) > 0

====
